---- MODULE Spec2Model ----
(***************************************************************************)
(* Model of src/main.ts: one invocation of run().  The invocation is a     *)
(* single async function; every action below is one turn of the event     *)
(* loop: the code that runs from the resumption of an await up to the      *)
(* next await (or to the end of run()).  `trace` is the ordered history of *)
(* what the invocation did to its collaborators: remote calls initiated,  *)
(* their completions, core.setFailed and core.setOutput.                   *)
(***************************************************************************)
EXTENDS Integers, Sequences, FiniteSets, TLC

VARIABLES
    action,          \* core.getInput('action'), a sequence of characters
    channel,         \* core.getInput('channel')
    status,          \* core.getInput('status')
    previousMsgThreadId, \* core.getInput('thread-id') || ''
    screenshotsDir,  \* the files below the screenshots root
    videosDir,       \* the files below the videos root
    pc,              \* the await run() is suspended at
    listResult,      \* the response of conversations.list
    channelID,       \* const channelID
    screenshots,     \* walkSync(screenshotsDir, '**/*.png')
    videos,          \* walkSync(videosDir, '**/*.mp4')
    pending,         \* files.upload calls in flight
    trace            \* history of calls, completions, setFailed, setOutput

vars == <<action, channel, status, previousMsgThreadId, screenshotsDir,
          videosDir, pc, listResult, channelID, screenshots, videos,
          pending, trace>>

inputs == <<action, channel, status, previousMsgThreadId, screenshotsDir,
            videosDir>>

----------------------------------------------------------------------------
(* Bounds of the model *)

MaxScreenshots == 2
MaxVideos == 2

----------------------------------------------------------------------------
(* Strings the code compares character by character *)

start == <<"s", "t", "a", "r", "t">>
upload == <<"u", "p", "l", "o", "a", "d">>
finish == <<"f", "i", "n", "i", "s", "h">>

\* String.prototype.toLowerCase on the letters the inputs are made of
LowerOf == [A |-> "a", D |-> "d", F |-> "f", H |-> "h", I |-> "i", L |-> "l",
            N |-> "n", O |-> "o", P |-> "p", R |-> "r", S |-> "s", T |-> "t",
            U |-> "u", Y |-> "y", E |-> "e"]

toLowerCase(s) ==
    [i \in 1..Len(s) |-> IF s[i] \in DOMAIN LowerOf THEN LowerOf[s[i]] ELSE s[i]]

\* values of the 'action' input the model draws from
ActionInputs ==
    { start, <<"S", "T", "A", "R", "T">>, <<"S", "t", "a", "r", "t">>,
      upload, <<"U", "p", "l", "o", "a", "d">>,
      finish, <<"F", "i", "n", "i", "s", "h">>,
      <<"d", "e", "p", "l", "o", "y">>, <<>> }

ThreadInputs == {"", "169000.1"}
StatusInputs == {"", "success", "failure", "SUCCESS"}
ChannelInputs == {"ci"}

\* responses of conversations.list: result.channels (undefined is the empty list)
Listings ==
    { <<>>,
      <<[name |-> "general", id |-> "C1"]>>,
      <<[name |-> "CI", id |-> "C3"]>>,
      <<[name |-> "general", id |-> "C1"], [name |-> "ci", id |-> "C2"]>>,
      <<[name |-> "ci", id |-> "C2"], [name |-> "ci", id |-> "C4"]>>,
      <<[name |-> "ci", id |-> ""]>> }

\* result.ts of a successful chat.postMessage
Timestamps == {"170000.1", "170000.2"}

\* error.message of a failed remote call
ErrorMessages == {"ratelimited", "not_authed"}

\* the files below a root: n files with the extension the root is for, after
\* one file of another kind
Dir(root, n, ext, other) ==
    [i \in 1..(n + 1) |->
        [dir |-> root, name |-> i, ext |-> IF i = 1 THEN other ELSE ext]]

----------------------------------------------------------------------------
(* Events of the history *)

NoFile == [dir |-> "", name |-> 0, ext |-> ""]

Blank == [ev |-> "", op |-> "", channel |-> "", thread |-> "", file |-> NoFile,
          color |-> "", icon |-> "", statusText |-> "", text |-> "",
          ok |-> TRUE, val |-> "", msg |-> ""]

ListCall == [Blank EXCEPT !.ev = "call", !.op = "list"]

\* slack.chat.postMessage of the start branch
StartPostCall(ch) ==
    [Blank EXCEPT !.ev = "call", !.op = "post", !.channel = ch,
                  !.color = "#f2c744", !.icon = ":rocket:",
                  !.statusText = "In progress"]

\* slack.chat.postMessage of the upload branch (the pointer message)
PointerPostCall(ch, thread) ==
    [Blank EXCEPT !.ev = "call", !.op = "post", !.channel = ch,
                  !.thread = thread, !.text = "check this out :point_down:"]

UploadCall(ch, thread, f) ==
    [Blank EXCEPT !.ev = "call", !.op = "upload", !.channel = ch,
                  !.thread = thread, !.file = f]

Return(op, f, ok, val, msg) ==
    [Blank EXCEPT !.ev = "ret", !.op = op, !.file = f, !.ok = ok, !.val = val,
                  !.msg = msg]

\* core.setFailed(`${text}${msg}`): text is the part the code writes, msg the
\* error.message it interpolates
SetFailed(text, msg) ==
    [Blank EXCEPT !.ev = "setFailed", !.text = text, !.msg = msg]

SetOutput(val) == [Blank EXCEPT !.ev = "setOutput", !.text = "thread-id", !.val = val]

----------------------------------------------------------------------------
(* Pure parts of run() and getChannelId() *)

\* ['start', 'upload', 'finish'].includes(action.toLowerCase())
IsKnownAction(a) == toLowerCase(a) \in {start, upload, finish}

\* RequiresThreadId with 'finish' left out of the list
RequiresThreadId_UploadOnly(a) == toLowerCase(a) \in {upload}

\* ['upload', 'finish'].includes(action.toLowerCase())
RequiresThreadId(a) == toLowerCase(a) \in {upload, finish}

\* FindChannel taking the first channel of the list, whatever its name
FindChannel_First(channels, channelName) ==
    IF Len(channels) > 0 THEN 1 ELSE 0

\* result.channels?.find(c => c.name === channelName): index of the first
\* channel of that name, 0 when there is none
FindChannel(channels, channelName) ==
    IF \E i \in 1..Len(channels) : channels[i].name = channelName
    THEN CHOOSE i \in 1..Len(channels) :
            /\ channels[i].name = channelName
            /\ \A j \in 1..(i - 1) : channels[j].name # channelName
    ELSE 0

\* the if / else-if chain run() dispatches on
Branch(a) ==
    IF a = start THEN "start"
    ELSE IF a = finish THEN "finish"
    ELSE "upload"

\* core.getInput('status') || false, as it is interpolated into the message
RunStatusText(s) == IF s = "" THEN "false" ELSE s

StatusColor(s) == IF s = "success" THEN "#64f244" ELSE "#e30d0d"

StatusIcon(s) == IF s = "success" THEN ":ok_hand:" ELSE ":poop:"

UpdateCall(ch, thread, s) ==
    [Blank EXCEPT !.ev = "call", !.op = "update", !.channel = ch,
                  !.thread = thread, !.color = StatusColor(s),
                  !.icon = StatusIcon(s), !.statusText = RunStatusText(s)]

\* walkSync called without the globs option
walkSync_NoGlob(dir, ext) == dir

\* walkSync(dir, { globs: ['**/*.<ext>'] })
walkSync(dir, ext) == SelectSeq(dir, LAMBDA f : f.ext = ext)

\* NoArtifacts with || in the place of &&
NoArtifacts_Either(v, s) == Len(v) <= 0 \/ Len(s) <= 0

\* videos.length <= 0 && screenshots.length <= 0
NoArtifacts(v, s) == Len(v) <= 0 /\ Len(s) <= 0

\* files.map(async f => { await slack.files.upload(...) }): one call per file,
\* all initiated in the same turn, in the order of the list
UploadGroup(files, ch, thread) ==
    [i \in 1..Len(files) |-> UploadCall(ch, thread, files[i])]

Range(s) == {s[i] : i \in 1..Len(s)}

\* getChannelId's return value: channel.id, or undefined ("") when no channel
\* has the name
getChannelId(channels, channelName) ==
    IF FindChannel(channels, channelName) = 0 THEN ""
    ELSE channels[FindChannel(channels, channelName)].id

\* catch (error) { core.setFailed(error.message) }
Catch(msg) == SetFailed("", msg)

----------------------------------------------------------------------------
(* The invocation *)

NoResult == [status |-> "none", channels |-> <<>>]

Init ==
    /\ action \in ActionInputs
    /\ channel \in ChannelInputs
    /\ status \in StatusInputs
    /\ previousMsgThreadId \in ThreadInputs
    /\ \E n \in 0..MaxScreenshots :
          screenshotsDir = Dir("screenshots", n, "png", "mp4")
    /\ \E n \in 0..MaxVideos :
          videosDir = Dir("videos", n, "mp4", "png")
    /\ pc = "begin"
    /\ listResult = NoResult
    /\ channelID = ""
    /\ screenshots = <<>>
    /\ videos = <<>>
    /\ pending = {}
    /\ trace = <<>>

\* lines 44-47: the action is none of the three
RunUnknownAction ==
    /\ pc = "begin"
    /\ ~IsKnownAction(action)
    /\ trace' = Append(trace, SetFailed("Unknown action", ""))
    /\ pc' = "done"
    /\ UNCHANGED <<inputs, listResult, channelID, screenshots, videos, pending>>

\* lines 49-55: upload or finish without a thread-id
RunMissingThreadId ==
    /\ pc = "begin"
    /\ IsKnownAction(action)
    /\ RequiresThreadId(action) /\ previousMsgThreadId = ""
    /\ trace' = Append(trace, SetFailed("requires thread-id", ""))
    /\ pc' = "done"
    /\ UNCHANGED <<inputs, listResult, channelID, screenshots, videos, pending>>

\* lines 57-61 and 11: the inputs are accepted, conversations.list is called
RunListChannels ==
    /\ pc = "begin"
    /\ IsKnownAction(action)
    /\ ~(RequiresThreadId(action) /\ previousMsgThreadId = "")
    /\ trace' = Append(trace, ListCall)
    /\ pc' = "awaitList"
    /\ UNCHANGED <<inputs, listResult, channelID, screenshots, videos, pending>>

\* lines 20-22 and 62-64: conversations.list throws
ListFails ==
    /\ pc = "awaitList"
    /\ \E m \in ErrorMessages :
          trace' = trace \o << Return("list", NoFile, FALSE, "", m),
                               SetFailed("Failed to fetch channel ID", m) >>
    /\ listResult' = [status |-> "error", channels |-> <<>>]
    /\ pc' = "done"
    /\ UNCHANGED <<inputs, channelID, screenshots, videos, pending>>

\* ChannelNotFound without the `if (!channelID) return` of run(): the branch
\* goes on with an undefined channel
ChannelNotFound_NoReturn ==
    /\ pc = "awaitList"
    /\ \E l \in Listings :
          /\ FindChannel(l, channel) = 0
          /\ listResult' = [status |-> "ok", channels |-> l]
          /\ trace' = trace \o << Return("list", NoFile, TRUE, "", ""),
                                  SetFailed("Channel not found", "") >>
                         \o (IF Branch(action) = "start"
                                THEN << StartPostCall("") >>
                             ELSE IF Branch(action) = "finish"
                                THEN << UpdateCall("", previousMsgThreadId, status) >>
                             ELSE << >>)
    /\ pc' = (IF Branch(action) = "start" THEN "awaitStartPost"
              ELSE IF Branch(action) = "finish" THEN "awaitUpdate"
              ELSE "done")
    /\ UNCHANGED <<inputs, channelID, screenshots, videos, pending>>

\* lines 13-18 and 62-64: no channel of the list has the name
ChannelNotFound ==
    /\ pc = "awaitList"
    /\ \E l \in Listings :
          /\ FindChannel(l, channel) = 0
          /\ listResult' = [status |-> "ok", channels |-> l]
          /\ trace' = trace \o << Return("list", NoFile, TRUE, "", ""),
                                  SetFailed("Channel not found", "") >>
    /\ pc' = "done"
    /\ UNCHANGED <<inputs, channelID, screenshots, videos, pending>>

\* lines 13-15 and 62-64: the channel is found and has no id, getChannelId
\* returns a falsy value without reporting anything
ChannelWithoutId ==
    /\ pc = "awaitList"
    /\ \E l \in Listings :
          /\ FindChannel(l, channel) # 0
          /\ getChannelId(l, channel) = ""
          /\ listResult' = [status |-> "ok", channels |-> l]
          /\ trace' = Append(trace, Return("list", NoFile, TRUE, "", ""))
    /\ pc' = "done"
    /\ UNCHANGED <<inputs, channelID, screenshots, videos, pending>>

\* getChannelId returned an id: what the turns that go on from here share
Resolved(l) ==
    /\ pc = "awaitList"
    /\ getChannelId(l, channel) # ""
    /\ listResult' = [status |-> "ok", channels |-> l]
    /\ channelID' = getChannelId(l, channel)

\* lines 70-106: the start branch posts the start message
ResolvedStart ==
    /\ \E l \in Listings :
          /\ Resolved(l)
          /\ Branch(action) = "start"
          /\ trace' = trace \o << Return("list", NoFile, TRUE, "", ""),
                                  StartPostCall(getChannelId(l, channel)) >>
    /\ pc' = "awaitStartPost"
    /\ UNCHANGED <<inputs, screenshots, videos, pending>>

\* lines 110-150: the finish branch updates the message thread-id names
ResolvedFinish ==
    /\ \E l \in Listings :
          /\ Resolved(l)
          /\ Branch(action) = "finish"
          /\ trace' = trace \o << Return("list", NoFile, TRUE, "", ""),
                                  UpdateCall(getChannelId(l, channel),
                                             previousMsgThreadId, status) >>
    /\ pc' = "awaitUpdate"
    /\ UNCHANGED <<inputs, screenshots, videos, pending>>

\* lines 154-161: neither branch was taken, and the walk finds nothing
ResolvedUploadNothing ==
    /\ \E l \in Listings :
          /\ Resolved(l)
          /\ Branch(action) = "upload"
          /\ trace' = Append(trace, Return("list", NoFile, TRUE, "", ""))
    /\ videos' = walkSync(videosDir, "mp4")
    /\ screenshots' = walkSync(screenshotsDir, "png")
    /\ NoArtifacts(videos', screenshots')
    /\ pc' = "done"
    /\ UNCHANGED <<inputs, pending>>

\* lines 154-169: neither branch was taken, the walk finds files, the pointer
\* message is posted into the thread
ResolvedUploadPointer ==
    /\ \E l \in Listings :
          /\ Resolved(l)
          /\ Branch(action) = "upload"
          /\ trace' = trace \o << Return("list", NoFile, TRUE, "", ""),
                                  PointerPostCall(getChannelId(l, channel),
                                                  previousMsgThreadId) >>
    /\ videos' = walkSync(videosDir, "mp4")
    /\ screenshots' = walkSync(screenshotsDir, "png")
    /\ ~NoArtifacts(videos', screenshots')
    /\ pc' = "awaitPointer"
    /\ UNCHANGED <<inputs, pending>>

\* lines 107-109: the start post returns, its ts is the thread-id output
StartPostReturns ==
    /\ pc = "awaitStartPost"
    /\ \E ts \in Timestamps :
          trace' = trace \o << Return("post", NoFile, TRUE, ts, ""),
                               SetOutput(ts) >>
    /\ pc' = "done"
    /\ UNCHANGED <<inputs, listResult, channelID, screenshots, videos, pending>>

\* lines 71 and 214-216
StartPostFails ==
    /\ pc = "awaitStartPost"
    /\ \E m \in ErrorMessages :
          trace' = trace \o << Return("post", NoFile, FALSE, "", m), Catch(m) >>
    /\ pc' = "done"
    /\ UNCHANGED <<inputs, listResult, channelID, screenshots, videos, pending>>

\* line 151
UpdateReturns ==
    /\ pc = "awaitUpdate"
    /\ trace' = Append(trace, Return("update", NoFile, TRUE, "", ""))
    /\ pc' = "done"
    /\ UNCHANGED <<inputs, listResult, channelID, screenshots, videos, pending>>

\* lines 114 and 214-216
UpdateFails ==
    /\ pc = "awaitUpdate"
    /\ \E m \in ErrorMessages :
          trace' = trace \o << Return("update", NoFile, FALSE, "", m), Catch(m) >>
    /\ pc' = "done"
    /\ UNCHANGED <<inputs, listResult, channelID, screenshots, videos, pending>>

\* lines 163 and 214-216
PointerPostFails ==
    /\ pc = "awaitPointer"
    /\ \E m \in ErrorMessages :
          trace' = trace \o << Return("post", NoFile, FALSE, "", m), Catch(m) >>
    /\ pc' = "done"
    /\ UNCHANGED <<inputs, listResult, channelID, screenshots, videos, pending>>

\* lines 175-189: the pointer post returns and there are screenshots; every
\* screenshot upload is initiated in this turn
PointerPostReturnsScreenshots ==
    /\ pc = "awaitPointer"
    /\ Len(screenshots) > 0
    /\ trace' = Append(trace, Return("post", NoFile, TRUE, "", ""))
                  \o UploadGroup(screenshots, channelID, previousMsgThreadId)
    /\ pending' = Range(screenshots)
    /\ pc' = "awaitScreenshots"
    /\ UNCHANGED <<inputs, listResult, channelID, screenshots, videos>>

\* lines 175 and 194-208: the pointer post returns and there are only videos
PointerPostReturnsVideos ==
    /\ pc = "awaitPointer"
    /\ ~(Len(screenshots) > 0)
    /\ Len(videos) > 0
    /\ trace' = Append(trace, Return("post", NoFile, TRUE, "", ""))
                  \o UploadGroup(videos, channelID, previousMsgThreadId)
    /\ pending' = Range(videos)
    /\ pc' = "awaitVideos"
    /\ UNCHANGED <<inputs, listResult, channelID, screenshots, videos>>

\* lines 178 and 197: one upload of the awaited group is done while others of
\* the group are in flight, Promise.all goes on waiting
UploadReturns ==
    /\ pc \in {"awaitScreenshots", "awaitVideos"}
    /\ \E f \in pending :
          /\ pending \ {f} # {}
          /\ pending' = pending \ {f}
          /\ trace' = Append(trace, Return("upload", f, TRUE, "", ""))
    /\ UNCHANGED <<inputs, pc, listResult, channelID, screenshots, videos>>

\* lines 191-208: the last screenshot upload is done, Promise.all resolves and
\* every video upload is initiated in this turn
ScreenshotsDoneVideos ==
    /\ pc = "awaitScreenshots"
    /\ Len(videos) > 0
    /\ \E f \in pending :
          /\ pending = {f}
          /\ trace' = Append(trace, Return("upload", f, TRUE, "", ""))
                        \o UploadGroup(videos, channelID, previousMsgThreadId)
    /\ pending' = Range(videos)
    /\ pc' = "awaitVideos"
    /\ UNCHANGED <<inputs, listResult, channelID, screenshots, videos>>

\* lines 191-194 and 211: the last screenshot upload is done, no videos
ScreenshotsDoneNoVideos ==
    /\ pc = "awaitScreenshots"
    /\ ~(Len(videos) > 0)
    /\ \E f \in pending :
          /\ pending = {f}
          /\ trace' = Append(trace, Return("upload", f, TRUE, "", ""))
    /\ pending' = {}
    /\ pc' = "done"
    /\ UNCHANGED <<inputs, listResult, channelID, screenshots, videos>>

\* lines 210-211: the last video upload is done
VideosDone ==
    /\ pc = "awaitVideos"
    /\ \E f \in pending :
          /\ pending = {f}
          /\ trace' = Append(trace, Return("upload", f, TRUE, "", ""))
    /\ pending' = {}
    /\ pc' = "done"
    /\ UNCHANGED <<inputs, listResult, channelID, screenshots, videos>>

\* UploadFails with the try/catch inside the map callback: the failure is
\* reported and the group goes on
UploadFails_PerFileCatch ==
    /\ pc \in {"awaitScreenshots", "awaitVideos"}
    /\ \E f \in pending, m \in ErrorMessages :
          /\ pending \ {f} # {}
          /\ pending' = pending \ {f}
          /\ trace' = trace \o << Return("upload", f, FALSE, "", m), Catch(m) >>
    /\ UNCHANGED <<inputs, pc, listResult, channelID, screenshots, videos>>

\* lines 178, 197 and 214-216: an upload of the awaited group fails, Promise.all
\* rejects with its error and run() ends in the catch; the other uploads of the
\* group stay in flight
UploadFails ==
    /\ pc \in {"awaitScreenshots", "awaitVideos"}
    /\ \E f \in pending, m \in ErrorMessages :
          /\ pending' = pending \ {f}
          /\ trace' = trace \o << Return("upload", f, FALSE, "", m), Catch(m) >>
    /\ pc' = "done"
    /\ UNCHANGED <<inputs, listResult, channelID, screenshots, videos>>

\* lines 182 and 201: an upload settles after Promise.all has rejected; nothing
\* awaits it any more
LateUploadSettles ==
    /\ pc = "done"
    /\ \E f \in pending :
          /\ pending' = pending \ {f}
          /\ \/ trace' = Append(trace, Return("upload", f, TRUE, "", ""))
             \/ \E m \in ErrorMessages :
                   trace' = Append(trace, Return("upload", f, FALSE, "", m))
    /\ UNCHANGED <<inputs, pc, listResult, channelID, screenshots, videos>>

Next ==
    \/ RunUnknownAction
    \/ RunMissingThreadId
    \/ RunListChannels
    \/ ListFails
    \/ ChannelNotFound
    \/ ChannelWithoutId
    \/ ResolvedStart
    \/ ResolvedFinish
    \/ ResolvedUploadNothing
    \/ ResolvedUploadPointer
    \/ StartPostReturns
    \/ StartPostFails
    \/ UpdateReturns
    \/ UpdateFails
    \/ PointerPostFails
    \/ PointerPostReturnsScreenshots
    \/ PointerPostReturnsVideos
    \/ UploadReturns
    \/ ScreenshotsDoneVideos
    \/ ScreenshotsDoneNoVideos
    \/ VideosDone
    \/ UploadFails
    \/ LateUploadSettles

Spec == Init /\ [][Next]_vars

----------------------------------------------------------------------------
(* Vocabulary of the properties.  The modes are told apart here by the     *)
(* spellings themselves, and the artifacts counted on the directories,     *)
(* not by the operators the model of run() uses.                           *)

StartSpellings ==
    { <<"s", "t", "a", "r", "t">>, <<"S", "T", "A", "R", "T">>,
      <<"S", "t", "a", "r", "t">> }
UploadSpellings ==
    { <<"u", "p", "l", "o", "a", "d">>, <<"U", "p", "l", "o", "a", "d">> }
FinishSpellings ==
    { <<"f", "i", "n", "i", "s", "h">>, <<"F", "i", "n", "i", "s", "h">> }

Idx == 1..Len(trace)

IsCall(e, op) == e.ev = "call" /\ e.op = op
CallsOf(op) == {i \in Idx : IsCall(trace[i], op)}
\* a post without thread text is the start message, one with text the pointer
StartPosts == {i \in CallsOf("post") : trace[i].text = ""}
PointerPosts == {i \in CallsOf("post") : trace[i].text # ""}
Failures == {i \in Idx : trace[i].ev = "setFailed"}
Outputs == {i \in Idx : trace[i].ev = "setOutput"}
FailedReturns(op) ==
    {i \in Idx : trace[i].ev = "ret" /\ trace[i].op = op /\ ~trace[i].ok}
GoodReturns(op) ==
    {i \in Idx : trace[i].ev = "ret" /\ trace[i].op = op /\ trace[i].ok}
RemoteFailures == {i \in Idx : trace[i].ev = "ret" /\ ~trace[i].ok}

Matching(dir, ext) == {dir[i] : i \in {j \in 1..Len(dir) : dir[j].ext = ext}}
Pngs == Matching(screenshotsDir, "png")
Mp4s == Matching(videosDir, "mp4")
UploadsOf(f) == {i \in CallsOf("upload") : trace[i].file = f}
UploadsIn(root) == {i \in CallsOf("upload") : trace[i].file.dir = root}

NameListed ==
    /\ listResult.status = "ok"
    /\ \E i \in 1..Len(listResult.channels) :
          listResult.channels[i].name = channel

ConfigError ==
    \/ action \notin (StartSpellings \cup UploadSpellings \cup FinishSpellings)
    \/ /\ action \in (UploadSpellings \cup FinishSpellings)
       /\ previousMsgThreadId = ""

----------------------------------------------------------------------------
\* C1: whatever the case of the letters of the action, the calls run() makes
\* are those of the mode the lower-cased action names and of no other: start
\* posts the start message, finish issues the update, upload posts the pointer
\* and uploads; any other action makes no call and ends failed.
C1_DispatchByLoweredAction ==
    /\ action \in StartSpellings =>
          /\ CallsOf("update") = {} /\ CallsOf("upload") = {} /\ PointerPosts = {}
          /\ (channelID # "" => StartPosts # {})
    /\ action \in FinishSpellings =>
          /\ CallsOf("post") = {} /\ CallsOf("upload") = {}
          /\ (channelID # "" => CallsOf("update") # {})
    /\ action \in UploadSpellings =>
          /\ CallsOf("update") = {} /\ StartPosts = {}
    /\ action \notin (StartSpellings \cup UploadSpellings \cup FinishSpellings) =>
          /\ CallsOf("post") \cup CallsOf("update") \cup CallsOf("upload") = {}
          /\ (pc # "begin" => Failures # {})

\* C2: in upload mode with N screenshots and M videos, N + M >= 1, and no
\* remote failure, there is exactly one pointer post, then one upload call per
\* screenshot and one per video; no upload is initiated before the pointer post
\* has returned, and no video upload before every screenshot upload has been
\* initiated and has returned.
C2_PointerThenScreenshotsThenVideos ==
    (action \in UploadSpellings /\ RemoteFailures = {}) =>
        /\ Cardinality(PointerPosts) <= 1
        /\ \A i \in CallsOf("upload") :
              \E j \in GoodReturns("post") : j < i
        /\ \A i \in UploadsIn("videos") : \A f \in Pngs :
              /\ \E j \in UploadsOf(f) : j < i
              /\ \E j \in GoodReturns("upload") : trace[j].file = f /\ j < i
        /\ (pc = "done" /\ channelID # "" /\ Pngs \cup Mp4s # {}) =>
              /\ Cardinality(PointerPosts) = 1
              /\ \A i \in PointerPosts : trace[i].thread = previousMsgThreadId
              /\ \A f \in Pngs \cup Mp4s : Cardinality(UploadsOf(f)) = 1
              /\ Cardinality(UploadsIn("screenshots")) = Cardinality(Pngs)
              /\ Cardinality(UploadsIn("videos")) = Cardinality(Mp4s)

C2_Witness ==
    /\ action \in UploadSpellings /\ RemoteFailures = {}
    /\ pc = "done" /\ pending = {}
    /\ Cardinality(Pngs) >= 2 /\ Cardinality(Mp4s) >= 2
    /\ Cardinality(CallsOf("upload")) = Cardinality(Pngs) + Cardinality(Mp4s)

\* C3: in upload mode, once an upload has failed, the run is marked failed
\* exactly once, with the message of the first upload that failed, whatever
\* the order the uploads of the group settle in; no file is uploaded twice,
\* no call other than list, post and upload is made, and when the first
\* failure is a screenshot's no video upload is ever initiated.
C3_FirstUploadFailureIsFatal ==
    (action \in UploadSpellings /\ FailedReturns("upload") # {}) =>
        LET first == CHOOSE i \in FailedReturns("upload") :
                        \A j \in FailedReturns("upload") : i <= j
        IN  /\ Cardinality(Failures) = 1
            /\ \A i \in Failures :
                  /\ trace[i].msg = trace[first].msg
                  /\ trace[i].text = ""
                  /\ i = first + 1
            /\ \A i \in CallsOf("upload") : Cardinality(UploadsOf(trace[i].file)) = 1
            /\ \A i \in Idx : trace[i].ev = "call" =>
                  trace[i].op \in {"list", "post", "upload"}
            /\ \A i \in CallsOf("upload") : i < first
            /\ trace[first].file.dir = "screenshots" => UploadsIn("videos") = {}

C3_Witness ==
    /\ action \in UploadSpellings
    /\ \E i \in FailedReturns("upload"), j \in GoodReturns("upload") :
          /\ i < j
          /\ trace[i].file.dir = "screenshots" /\ trace[j].file.dir = "screenshots"
    /\ Mp4s # {}
    /\ pending = {}

\* C4: an action that is none of start, upload, finish, or an upload or finish
\* (in any case of the letters) with an empty thread-id, ends the run failed
\* with no remote call at all: no list, no post, no update, no upload.
C4_ConfigErrorNoSideEffects ==
    ConfigError =>
        /\ \A i \in Idx : trace[i].ev # "call"
        /\ pc \in {"begin", "done"}
        /\ (pc = "done" => Cardinality(Failures) = 1)

C4_Witness ==
    /\ action = <<"F", "i", "n", "i", "s", "h">>
    /\ previousMsgThreadId = ""
    /\ pc = "done"
    /\ Failures # {}

\* C5: no post, update or upload is initiated unless conversations.list has
\* returned a channel whose name is exactly the configured one; when the name
\* is not in the response or the list call fails, the run is marked failed
\* with a message saying so and nothing is posted.
C5_ResolutionGatesMessages ==
    /\ \A i \in Idx : (trace[i].ev = "call" /\ trace[i].op # "list") =>
          /\ NameListed
          /\ \E j \in GoodReturns("list") : j < i
    /\ (listResult.status = "error" \/ (listResult.status = "ok" /\ ~NameListed)) =>
          /\ Cardinality(Failures) = 1
          /\ \A i \in Failures :
                trace[i].text = (IF listResult.status = "error"
                                 THEN "Failed to fetch channel ID"
                                 ELSE "Channel not found")
          /\ CallsOf("post") \cup CallsOf("update") \cup CallsOf("upload") = {}
          /\ pc = "done"

C5_Witness ==
    /\ listResult.status = "ok"
    /\ listResult.channels = <<[name |-> "CI", id |-> "C3"]>>
    /\ channel = "ci"
    /\ pc = "done"

\* C6: start mode, once the channel is resolved and the post has succeeded,
\* has made exactly one post, no update and no upload, and the thread-id output
\* is set once, to the ts the post returned; when the post fails the run is
\* marked failed and no thread-id output is set.
C6_StartPostsOnceAndOutputsTs ==
    action \in StartSpellings =>
        /\ (GoodReturns("post") # {}) =>
              /\ Cardinality(CallsOf("post")) = 1
              /\ CallsOf("update") = {} /\ CallsOf("upload") = {}
              /\ Cardinality(Outputs) = 1
              /\ \A i \in Outputs, j \in GoodReturns("post") :
                    trace[i].val = trace[j].val
        /\ (FailedReturns("post") # {}) =>
              /\ Cardinality(Failures) = 1
              /\ Outputs = {}

\* C6, restricted to the spelling 'start' that the dispatch compares with
C6_ExactStart ==
    action = start =>
        /\ (GoodReturns("post") # {}) =>
              /\ Cardinality(CallsOf("post")) = 1
              /\ CallsOf("update") = {} /\ CallsOf("upload") = {}
              /\ Cardinality(Outputs) = 1
              /\ \A i \in Outputs, j \in GoodReturns("post") :
                    trace[i].val = trace[j].val
        /\ (FailedReturns("post") # {}) =>
              /\ Cardinality(Failures) = 1
              /\ Outputs = {}

\* C7: finish mode, once the channel is resolved, issues exactly one update,
\* of the message the thread-id input names, and no post and no upload; the
\* update has the icon :ok_hand: and the colour #64f244 exactly when the status
\* input is 'success', and :poop: and #e30d0d for every other status.
C7_FinishUpdatesOnce ==
    action \in FinishSpellings =>
        /\ CallsOf("post") = {} /\ CallsOf("upload") = {}
        /\ (channelID # "") =>
              /\ Cardinality(CallsOf("update")) = 1
              /\ \A i \in CallsOf("update") :
                    /\ trace[i].thread = previousMsgThreadId
                    /\ (status = "success") =>
                          trace[i].icon = ":ok_hand:" /\ trace[i].color = "#64f244"
                    /\ (status # "success") =>
                          trace[i].icon = ":poop:" /\ trace[i].color = "#e30d0d"

\* C7, restricted to the spelling 'finish' that the dispatch compares with
C7_ExactFinish ==
    action = finish =>
        /\ CallsOf("post") = {} /\ CallsOf("upload") = {}
        /\ (channelID # "") =>
              /\ Cardinality(CallsOf("update")) = 1
              /\ \A i \in CallsOf("update") :
                    /\ trace[i].thread = previousMsgThreadId
                    /\ (status = "success") =>
                          trace[i].icon = ":ok_hand:" /\ trace[i].color = "#64f244"
                    /\ (status # "success") =>
                          trace[i].icon = ":poop:" /\ trace[i].color = "#e30d0d"

\* C8: upload mode with no matching file under either root posts no pointer
\* message and uploads nothing, and with the channel resolved it ends without
\* marking the run failed.
C8_NoArtifactsNoOp ==
    (action \in UploadSpellings /\ Pngs = {} /\ Mp4s = {}) =>
        /\ CallsOf("post") = {} /\ CallsOf("upload") = {} /\ CallsOf("update") = {}
        /\ (channelID # "") => (pc = "done" /\ Failures = {})

C8_Witness ==
    /\ action \in UploadSpellings /\ Pngs = {} /\ Mp4s = {}
    /\ Len(screenshotsDir) > 0 /\ Len(videosDir) > 0
    /\ channelID # ""
    /\ pc = "done"

\* C9: every call that extends or edits a thread (the update, the pointer
\* post, every upload) carries a non-empty thread identifier, the thread-id
\* input, whatever the accepted spelling of the action.
C9_ThreadCallsCarryThreadId ==
    \A i \in CallsOf("update") \cup PointerPosts \cup CallsOf("upload") :
        /\ trace[i].thread # ""
        /\ trace[i].thread = previousMsgThreadId

\* C10: core.setFailed is invoked at most once in an invocation, and no remote
\* call is initiated after it.
C10_FailureIsTerminalAndSingle ==
    /\ Cardinality(Failures) <= 1
    /\ \A i \in Failures : \A j \in Idx : trace[j].ev = "call" => j < i

C10_Witness ==
    /\ Cardinality(FailedReturns("upload")) >= 2
    /\ Failures # {}
    /\ pending = {}

====
